---- MODULE Spec2Model ----
(***************************************************************************)
(* Model of the Messaging concept (src/server/concepts/messaging.ts).      *)
(* The collection `messages` is a set of documents; a document is a record *)
(* whose optional fields (draft, sent, received, the timestamps and the    *)
(* two cross references) are in its DOMAIN only when they are set.         *)
(* Each operation of MessagingConcept is one action that runs the whole    *)
(* handler and records the call and its outcome in `last`.                 *)
(* SpecConcurrent runs send and editSent of two request handlers one store *)
(* call at a time; SpecTasking is the Tasking concept                      *)
(* (src/server/concepts/tasksetting.ts) over the collection `tasks`.       *)
(***************************************************************************)
EXTENDS Integers, FiniteSets, Sequences, TLC

\* ---- bounds ----
\* identifiers the store hands out before the model stops creating documents
MaxIds == 3

\* ---- inputs ----
Users == {"alice", "bob", "carol"}
Senders == {"alice"}
Recipients == {"bob", "carol"}
Texts == {"", "hi"}
Undefined == "<undefined>"
Date == "date"
None == "none"
Ids == 1..MaxIds
Workers == {"alice", "bob"}
Titles == {"", "Task #1"}
Descriptions == {"", "Finish the list"}
StatusTypes == {"complete", "in-progress"}

\* the spec's error kinds, as sets of the error classes of messaging.ts
NotFound == {"NotFoundError"}
Forbidden == {"NotAllowedError", "UserNotSenderError", "UserNotMatchError"}
InvalidState == {"NotADraftError", "MessageNotSentError"}

\* messages, tasks: the two collections; nextId: the next identifier the store
\* hands out; last: the call just completed; calls: the call each request
\* handler has in flight or ran last
VARIABLES messages, tasks, nextId, last, calls

vars == <<messages, tasks, nextId, last, calls>>

\* ---- the document collection (framework/doc, DocCollection) ----

\* a filter matches a document when every filter field is present with that value
Matches(doc, filter) ==
  \A f \in DOMAIN filter : f \in DOMAIN doc /\ doc[f] = filter[f]

readMany(coll, filter) == {d \in coll : Matches(d, filter)}

\* the first matching document in _id order, as a set: empty for null
readOne(coll, filter) ==
  LET found == readMany(coll, filter)
  IN IF found = {} THEN {}
     ELSE {CHOOSE d \in found : \A e \in found : d._id <= e._id}

\* the item stored under the fresh identifier id
createOne(coll, id, item) ==
  coll \cup {[f \in DOMAIN item \cup {"_id"} |-> IF f = "_id" THEN id ELSE item[f]]}

\* fields: the values to set; undef: the names passed with the value undefined,
\* which the store leaves unchanged
partialUpdateOne(coll, filter, fields, undef) ==
  LET hit == readOne(coll, filter)
  IN IF hit = {} THEN coll
     ELSE LET d == CHOOSE x \in hit : TRUE
              upd == [f \in DOMAIN d \cup DOMAIN fields |->
                        IF f \in DOMAIN fields THEN fields[f] ELSE d[f]]
          IN (coll \ {d}) \cup {upd}

deleteOne(coll, filter) == coll \ readOne(coll, filter)

\* ---- helpers ----
ById(id) == [_id |-> id]

Has(doc, f) == f \in DOMAIN doc

\* JavaScript truthiness of an optional boolean field
Truthy(doc, f) == Has(doc, f) /\ doc[f] = TRUE

\* the call just completed: its arguments, the error it threw (None when it
\* returned), the receiver-side identifier it created or looked up (0 when
\* none) and the document it returned
Call(op, id, user, to, message, error, receiverMessageID, returned) ==
  [op |-> op, _id |-> id, user |-> user, to |-> to, message |-> message,
   error |-> error, receiverMessageID |-> receiverMessageID, returned |-> returned]

\* a call that threw: the operation and the error
Thrown(op, err) == Call(op, 0, Undefined, Undefined, Undefined, err, 0, {})

\* the request handlers that run calls concurrently
Handlers == {"h1", "h2"}

\* a call of TaskingConcept just completed
TaskCall(op, id, worker, title, description, status, error, returned) ==
  [op |-> op, _id |-> id, worker |-> worker, title |-> title,
   description |-> description, status |-> status, error |-> error,
   returned |-> returned]

Init ==
  /\ messages = {}
  /\ tasks = {}
  /\ calls = {}
  /\ nextId = 1
  /\ last = Call("init", 0, Undefined, Undefined, Undefined, None, 0, {})

\* ---- MessagingConcept ----

\* draft with the draft flag left out of the created document
draft_withoutFlag(from, to, message) ==
  /\ UNCHANGED <<tasks, calls>>
  /\ nextId <= MaxIds
  /\ messages' = createOne(messages, nextId,
                   [from |-> from, to |-> to, timeDrafted |-> Date,
                    message |-> message])
  /\ nextId' = nextId + 1
  /\ last' = Call("draft", nextId, from, to, message, None, 0,
                  readOne(messages', ById(nextId)))

draft(from, to, message) ==
  /\ UNCHANGED <<tasks, calls>>
  /\ nextId <= MaxIds
  /\ messages' = createOne(messages, nextId,
                   [from |-> from, to |-> to, timeDrafted |-> Date,
                    message |-> message, draft |-> TRUE])
  /\ nextId' = nextId + 1
  /\ last' = Call("draft", nextId, from, to, message, None, 0,
                  readOne(messages', ById(nextId)))

readDrafts(from) == readMany(messages, [from |-> from, draft |-> TRUE])

\* the error assertUserIsSender throws, None when it returns
assertUserIsSender(user, id) ==
  LET message == readOne(messages, ById(id))
  IN IF message = {} THEN "NotFoundError"
     ELSE IF (CHOOSE d \in message : TRUE).from # user THEN "UserNotSenderError"
     ELSE None

\* the error assertSenderOrReceiver throws, None when it returns
assertSenderOrReceiver(user, id) ==
  LET message == readOne(messages, ById(id))
  IN IF message = {} THEN "NotFoundError"
     ELSE LET d == CHOOSE x \in message : TRUE
          IN IF d.from # user /\ d.to = user THEN "UserNotMatchError" ELSE None

\* the error editDraft throws, None when it goes on to update
editDraftError(id) ==
  LET messageObj == readOne(messages, ById(id))
  IN IF messageObj = {} THEN "NotFoundError"
     ELSE IF ~Truthy(CHOOSE d \in messageObj : TRUE, "draft") THEN "NotADraftError"
     ELSE None

\* editDraft that writes its arguments as given, omitted or not
editDraft_overwritesOmitted(id, message, to) ==
  /\ UNCHANGED <<tasks, calls>>
  /\ LET err == editDraftError(id)
     IN /\ messages' = IF err # None THEN messages
                       ELSE partialUpdateOne(messages, ById(id),
                              [message |-> message, to |-> to], {})
        /\ nextId' = nextId
        /\ last' = IF err # None THEN Thrown("editDraft", err)
                   ELSE Call("editDraft", id, Undefined, to, message, None, 0,
                             readOne(messages', ById(id)))

editDraft(id, message, to) ==
  /\ UNCHANGED <<tasks, calls>>
  /\ LET err == editDraftError(id)
         messageObj == CHOOSE d \in readOne(messages, ById(id)) : TRUE
         updatedMessage == IF message # Undefined THEN message ELSE messageObj.message
         updatedContact == IF to # Undefined THEN to ELSE messageObj.to
     IN /\ messages' = IF err # None THEN messages
                       ELSE partialUpdateOne(messages, ById(id),
                              [message |-> updatedMessage, to |-> updatedContact], {})
        /\ nextId' = nextId
        /\ last' = IF err # None THEN Thrown("editDraft", err)
                   ELSE Call("editDraft", id, Undefined, to, message, None, 0,
                             readOne(messages', ById(id)))

\* deleteDraft that only checks that the message exists
deleteDraft_unguarded(user, id) ==
  /\ UNCHANGED <<tasks, calls>>
  /\ LET err == IF readOne(messages, ById(id)) = {} THEN "NotFoundError" ELSE None
     IN /\ messages' = IF err # None THEN messages ELSE deleteOne(messages, ById(id))
        /\ nextId' = nextId
        /\ last' = IF err # None THEN Thrown("deleteDraft", err)
                   ELSE Call("deleteDraft", id, user, Undefined, Undefined, None, 0, {})

deleteDraft(user, id) ==
  /\ UNCHANGED <<tasks, calls>>
  /\ LET err == assertUserIsSender(user, id)
     IN /\ messages' = IF err # None THEN messages ELSE deleteOne(messages, ById(id))
        /\ nextId' = nextId
        /\ last' = IF err # None THEN Thrown("deleteDraft", err)
                   ELSE Call("deleteDraft", id, user, Undefined, Undefined, None, 0, {})

\* the checks of send without the comparison of the recipient
sendError_noRecipientCheck(id, from, to) ==
  LET messageObj == readOne(messages, ById(id))
      d == CHOOSE x \in messageObj : TRUE
  IN IF messageObj = {} THEN "NotFoundError"
     ELSE IF d.from # from THEN "NotAllowedError"
     ELSE IF Has(d, "draft") /\ ~Truthy(d, "draft") THEN "NotADraftError"
     ELSE None

\* the error send throws, None when it goes on to send
sendError(id, from, to) ==
  LET messageObj == readOne(messages, ById(id))
      d == CHOOSE x \in messageObj : TRUE
  IN IF messageObj = {} THEN "NotFoundError"
     ELSE IF d.from # from THEN "NotAllowedError"
     ELSE IF d.to # to THEN "NotAllowedError"
     ELSE IF Has(d, "draft") /\ ~Truthy(d, "draft") THEN "NotADraftError"
     ELSE None

\* send with the mirror addressed from the recipient's point of view
send_mirrorSwapped(id, from, to) ==
  /\ UNCHANGED <<tasks, calls>>
  /\ LET err == sendError(id, from, to)
         messageObj == CHOOSE d \in readOne(messages, ById(id)) : TRUE
         receiverMessageID == nextId
         created == createOne(messages, receiverMessageID,
                      [from |-> to, to |-> from, message |-> messageObj.message,
                       received |-> TRUE, timeReceived |-> Date, senderMessageID |-> id])
     IN IF err # None
        THEN /\ messages' = messages
             /\ nextId' = nextId
             /\ last' = Thrown("send", err)
        ELSE /\ nextId <= MaxIds
             /\ messages' = partialUpdateOne(created, ById(id),
                               [sent |-> TRUE, timeSent |-> Date,
                                receiverMessageID |-> receiverMessageID],
                               {"draft", "timeDrafted"})
             /\ nextId' = nextId + 1
             /\ last' = Call("send", id, from, to, messageObj.message, None, receiverMessageID,
                             readOne(messages', ById(id)))

\* send that marks as sent the sender's first document instead of the one named
send_updatesBySender(id, from, to) ==
  /\ UNCHANGED <<tasks, calls>>
  /\ LET err == sendError(id, from, to)
         messageObj == CHOOSE d \in readOne(messages, ById(id)) : TRUE
         receiverMessageID == nextId
         created == createOne(messages, receiverMessageID,
                      [from |-> from, to |-> to, message |-> messageObj.message,
                       received |-> TRUE, timeReceived |-> Date, senderMessageID |-> id])
     IN IF err # None
        THEN /\ messages' = messages
             /\ nextId' = nextId
             /\ last' = Thrown("send", err)
        ELSE /\ nextId <= MaxIds
             /\ messages' = partialUpdateOne(created, [from |-> from],
                               [sent |-> TRUE, timeSent |-> Date,
                                receiverMessageID |-> receiverMessageID],
                               {"draft", "timeDrafted"})
             /\ nextId' = nextId + 1
             /\ last' = Call("send", id, from, to, messageObj.message, None, receiverMessageID,
                             readOne(messages', ById(id)))

send(id, from, to) ==
  /\ UNCHANGED <<tasks, calls>>
  /\ LET err == sendError(id, from, to)
         messageObj == CHOOSE d \in readOne(messages, ById(id)) : TRUE
         receiverMessageID == nextId
         created == createOne(messages, receiverMessageID,
                      [from |-> from, to |-> to, message |-> messageObj.message,
                       received |-> TRUE, timeReceived |-> Date, senderMessageID |-> id])
     IN IF err # None
        THEN /\ messages' = messages
             /\ nextId' = nextId
             /\ last' = Thrown("send", err)
        ELSE /\ nextId <= MaxIds
             /\ messages' = partialUpdateOne(created, ById(id),
                               [sent |-> TRUE, timeSent |-> Date,
                                receiverMessageID |-> receiverMessageID],
                               {"draft", "timeDrafted"})
             /\ nextId' = nextId + 1
             /\ last' = Call("send", id, from, to, messageObj.message, None, receiverMessageID,
                             readOne(messages', ById(id)))

readSent(from, to) == readMany(messages, [from |-> from, to |-> to, sent |-> TRUE])

readReceived(from, to) == readMany(messages, [from |-> from, to |-> to, received |-> TRUE])

\* the error editSent throws, None when it goes on to update
editSentError(id) ==
  LET messageObj == readOne(messages, ById(id))
  IN IF messageObj = {} THEN "NotFoundError"
     ELSE IF ~Truthy(CHOOSE d \in messageObj : TRUE, "sent") THEN "MessageNotSentError"
     ELSE None

editSent(id, message) ==
  /\ UNCHANGED <<tasks, calls>>
  /\ LET err == editSentError(id)
         messageObj == CHOOSE d \in readOne(messages, ById(id)) : TRUE
         updatedMessage == IF message # Undefined THEN message ELSE messageObj.message
         senderSide == partialUpdateOne(messages, ById(id), [message |-> updatedMessage], {})
     IN /\ messages' = IF err # None THEN messages
                       ELSE IF ~Has(messageObj, "receiverMessageID") THEN senderSide
                       ELSE partialUpdateOne(senderSide, ById(messageObj.receiverMessageID),
                                             [message |-> updatedMessage], {})
        /\ nextId' = nextId
        /\ last' = IF err # None THEN Thrown("editSent", err)
                   ELSE Call("editSent", id, Undefined, Undefined, message, None,
                             IF Has(messageObj, "receiverMessageID")
                             THEN messageObj.receiverMessageID ELSE 0,
                             readOne(messages', ById(id)))

\* the checks of deleteSent with a missing reference reported as a missing message
deleteSentError_missingAsNotFound(user, id) ==
  LET err == assertUserIsSender(user, id)
      d == CHOOSE x \in readOne(messages, ById(id)) : TRUE
  IN IF err # None THEN err
     ELSE IF ~Has(d, "receiverMessageID") THEN "NotFoundError"
     ELSE None

\* the error deleteSent throws, None when it goes on to delete
deleteSentError(user, id) ==
  LET err == assertUserIsSender(user, id)
      d == CHOOSE x \in readOne(messages, ById(id)) : TRUE
  IN IF err # None THEN err
     ELSE IF ~Has(d, "receiverMessageID") THEN "AssertionError"
     ELSE None

\* deleteSent that deletes the sender's record before it asserts the reference
deleteSent_deleteBeforeAssert(user, id) ==
  /\ UNCHANGED <<tasks, calls>>
  /\ LET guard == assertUserIsSender(user, id)
         err == deleteSentError(user, id)
         receiverMessageID == (CHOOSE d \in readOne(messages, ById(id)) : TRUE).receiverMessageID
     IN /\ messages' = IF guard # None THEN messages
                       ELSE IF err # None THEN deleteOne(messages, ById(id))
                       ELSE deleteOne(deleteOne(messages, ById(id)),
                                      [receiverMessageID |-> receiverMessageID])
        /\ nextId' = nextId
        /\ last' = IF err # None THEN Thrown("deleteSent", err)
                   ELSE Call("deleteSent", id, user, Undefined, Undefined, None,
                             receiverMessageID, {})

deleteSent(user, id) ==
  /\ UNCHANGED <<tasks, calls>>
  /\ LET err == deleteSentError(user, id)
         receiverMessageID == (CHOOSE d \in readOne(messages, ById(id)) : TRUE).receiverMessageID
     IN /\ messages' = IF err # None THEN messages
                       ELSE deleteOne(deleteOne(messages, ById(id)),
                                      [receiverMessageID |-> receiverMessageID])
        /\ nextId' = nextId
        /\ last' = IF err # None THEN Thrown("deleteSent", err)
                   ELSE Call("deleteSent", id, user, Undefined, Undefined, None,
                             receiverMessageID, {})

\* assertSenderOrReceiver is called without await: its rejection never reaches
\* the caller, so read returns whatever readOne finds
read(user, id) ==
  /\ UNCHANGED <<tasks, calls>>
  /\ messages' = messages
  /\ nextId' = nextId
  /\ last' = Call("read", id, user, Undefined, Undefined, None, 0,
                  readOne(messages, ById(id)))

\* ---- send and editSent, one store call at a time ----

\* the call of handler h, as a set: empty before its first call
CallOf(h) == {c \in calls : c.h = h}

\* calls with the call of handler h replaced by c
Put(h, c) == (calls \ CallOf(h)) \cup {c}

\* a call that threw or died: the operation and the error
Ended(h, op, pc, err) == [h |-> h, op |-> op, pc |-> pc, error |-> err]

\* the handler can take a new call
Free(h) == \A c \in CallOf(h) : c.pc \in {"done", "failed"}

\* the handler is between two store calls of its call
Running(h) ==
  \E c \in CallOf(h) : c.pc \in {"create", "update", "updateSender", "updateReceiver"}

\* send up to its first write: readOne and the four checks
sendRead(h, id, from, to) ==
  /\ Free(h)
  /\ LET err == sendError(id, from, to)
     IN calls' = Put(h, IF err # None THEN Ended(h, "send", "failed", err)
                        ELSE [h |-> h, op |-> "send", pc |-> "create", error |-> None,
                              _id |-> id, from |-> from, to |-> to,
                              messageObj |-> readOne(messages, ById(id)),
                              receiverMessageID |-> 0])
  /\ UNCHANGED <<messages, tasks, nextId, last>>

\* createOne of send that creates no second mirror for the same message
sendCreate_onlyFirstMirror(h) ==
  \E c \in CallOf(h) :
    LET messageObj == CHOOSE d \in c.messageObj : TRUE
        mirrors == readOne(messages, [senderMessageID |-> c._id])
    IN /\ c.op = "send" /\ c.pc = "create"
       /\ nextId <= MaxIds
       /\ messages' = IF mirrors # {} THEN messages
                      ELSE createOne(messages, nextId,
                             [from |-> c.from, to |-> c.to, message |-> messageObj.message,
                              received |-> TRUE, timeReceived |-> Date,
                              senderMessageID |-> c._id])
       /\ nextId' = IF mirrors # {} THEN nextId ELSE nextId + 1
       /\ calls' = Put(h, [c EXCEPT !.pc = "update",
                                    !.receiverMessageID =
                                      IF mirrors # {} THEN (CHOOSE r \in mirrors : TRUE)._id
                                      ELSE nextId])
       /\ UNCHANGED <<tasks, last>>

\* the first write of send: createOne of the receiver's copy
sendCreate(h) ==
  \E c \in CallOf(h) :
    LET messageObj == CHOOSE d \in c.messageObj : TRUE
    IN /\ c.op = "send" /\ c.pc = "create"
       /\ nextId <= MaxIds
       /\ messages' = createOne(messages, nextId,
                        [from |-> c.from, to |-> c.to, message |-> messageObj.message,
                         received |-> TRUE, timeReceived |-> Date,
                         senderMessageID |-> c._id])
       /\ nextId' = nextId + 1
       /\ calls' = Put(h, [c EXCEPT !.pc = "update", !.receiverMessageID = nextId])
       /\ UNCHANGED <<tasks, last>>

\* the second write of send: partialUpdateOne of the sender's document
sendUpdate(h) ==
  \E c \in CallOf(h) :
    /\ c.op = "send" /\ c.pc = "update"
    /\ messages' = partialUpdateOne(messages, ById(c._id),
                     [sent |-> TRUE, timeSent |-> Date,
                      receiverMessageID |-> c.receiverMessageID],
                     {"draft", "timeDrafted"})
    /\ calls' = Put(h, [c EXCEPT !.pc = "done"])
    /\ UNCHANGED <<tasks, nextId, last>>

\* editSent up to its first write: readOne, the two checks and the new text
editSentRead(h, id, message) ==
  /\ Free(h)
  /\ LET err == editSentError(id)
         messageObj == readOne(messages, ById(id))
         updatedMessage == IF message # Undefined THEN message
                           ELSE (CHOOSE d \in messageObj : TRUE).message
     IN calls' = Put(h, IF err # None THEN Ended(h, "editSent", "failed", err)
                        ELSE [h |-> h, op |-> "editSent", pc |-> "updateSender",
                              error |-> None, _id |-> id, message |-> updatedMessage,
                              messageObj |-> messageObj])
  /\ UNCHANGED <<messages, tasks, nextId, last>>

\* the first write of editSent: the text on the sender's end
editSentUpdateSender(h) ==
  \E c \in CallOf(h) :
    /\ c.op = "editSent" /\ c.pc = "updateSender"
    /\ messages' = partialUpdateOne(messages, ById(c._id), [message |-> c.message], {})
    /\ calls' = Put(h, [c EXCEPT !.pc = "updateReceiver"])
    /\ UNCHANGED <<tasks, nextId, last>>

\* the second write of editSent: the text on the recipient's end, found through
\* the reference read at the start of the call
editSentUpdateReceiver(h) ==
  \E c \in CallOf(h) :
    LET messageObj == CHOOSE d \in c.messageObj : TRUE
    IN /\ c.op = "editSent" /\ c.pc = "updateReceiver"
       /\ messages' = IF ~Has(messageObj, "receiverMessageID") THEN messages
                      ELSE partialUpdateOne(messages, ById(messageObj.receiverMessageID),
                                            [message |-> c.message], {})
       /\ calls' = Put(h, [c EXCEPT !.pc = "done"])
       /\ UNCHANGED <<tasks, nextId, last>>

\* the handler dies between two store calls; nothing is rolled back
crash(h) ==
  /\ Running(h)
  /\ calls' = Put(h, Ended(h, (CHOOSE c \in CallOf(h) : TRUE).op, "crashed", None))
  /\ UNCHANGED <<messages, tasks, nextId, last>>

\* ---- TaskingConcept ----

\* the error assertValidTaskDetails throws, None when it returns
assertValidTaskDetails(title, description) ==
  IF title = "" \/ description = "" THEN "BadValuesError" ELSE None

\* create without the check of title and description
create_unvalidated(worker, title, description) ==
  /\ UNCHANGED <<messages, calls>>
  /\ nextId <= MaxIds
  /\ tasks' = createOne(tasks, nextId,
                [worker |-> worker, title |-> title, description |-> description,
                 status |-> "in-progress"])
  /\ nextId' = nextId + 1
  /\ last' = TaskCall("create", nextId, worker, title, description,
                      "in-progress", None, readOne(tasks', ById(nextId)))

create(worker, title, description) ==
  /\ UNCHANGED <<messages, calls>>
  /\ LET err == assertValidTaskDetails(title, description)
     IN IF err # None
        THEN /\ tasks' = tasks
             /\ nextId' = nextId
             /\ last' = TaskCall("create", 0, worker, title, description,
                                 Undefined, err, {})
        ELSE /\ nextId <= MaxIds
             /\ tasks' = createOne(tasks, nextId,
                           [worker |-> worker, title |-> title,
                            description |-> description, status |-> "in-progress"])
             /\ nextId' = nextId + 1
             /\ last' = TaskCall("create", nextId, worker, title, description,
                                 "in-progress", None, readOne(tasks', ById(nextId)))

getByWorker(worker) == readMany(tasks, [worker |-> worker])

update(id, title, description, status) ==
  /\ UNCHANGED <<messages, calls>>
  /\ LET task == readOne(tasks, ById(id))
         t == CHOOSE d \in task : TRUE
         updateFields ==
           [title |-> IF title = Undefined THEN t.title ELSE title,
            description |-> IF description = Undefined THEN t.description ELSE description,
            status |-> IF status = Undefined THEN t.status ELSE status]
     IN /\ tasks' = IF task = {} THEN tasks
                    ELSE partialUpdateOne(tasks, ById(id), updateFields, {})
        /\ nextId' = nextId
        /\ last' = IF task = {}
                   THEN TaskCall("update", id, Undefined, title, description, status,
                                 "NotFoundError", {})
                   ELSE TaskCall("update", id, Undefined, title, description, status,
                                 None, readOne(tasks', ById(id)))

\* delete that marks the task complete and keeps it
delete_marksComplete(id) ==
  /\ UNCHANGED <<messages, calls>>
  /\ tasks' = partialUpdateOne(tasks, ById(id), [status |-> "complete"], {})
  /\ nextId' = nextId
  /\ last' = TaskCall("delete", id, Undefined, Undefined, Undefined, Undefined, None, {})

delete(id) ==
  /\ UNCHANGED <<messages, calls>>
  /\ tasks' = deleteOne(tasks, ById(id))
  /\ nextId' = nextId
  /\ last' = TaskCall("delete", id, Undefined, Undefined, Undefined, Undefined, None, {})

\* ---- specifications ----

Next ==
  \/ \E from \in Senders, to \in Recipients, message \in Texts : draft(from, to, message)
  \/ \E id \in Ids, message \in Texts \cup {Undefined}, to \in Recipients \cup {Undefined} :
       editDraft(id, message, to)
  \/ \E user \in Users, id \in Ids : deleteDraft(user, id)
  \/ \E id \in Ids, from \in Users, to \in Users : send(id, from, to)
  \/ \E id \in Ids, message \in Texts \cup {Undefined} : editSent(id, message)
  \/ \E user \in Users, id \in Ids : deleteSent(user, id)

\* the mutating operations, one call at a time
Spec == Init /\ [][Next]_vars

NextRead ==
  \/ Next
  \/ \E user \in Users, id \in Ids : read(user, id)

\* the mutating operations and read, one call at a time
SpecRead == Init /\ [][NextRead]_vars

NextTasking ==
  \/ \E worker \in Workers, title \in Titles, description \in Descriptions :
       create(worker, title, description)
  \/ \E id \in Ids, title \in {Undefined, "Task #2"}, status \in StatusTypes \cup {Undefined} :
       update(id, title, Undefined, status)
  \/ \E id \in Ids : delete(id)

\* the operations of TaskingConcept, one call at a time
SpecTasking == Init /\ [][NextTasking]_vars

NextConcurrent ==
  \/ \E from \in Senders : draft(from, "bob", "")
  \/ \E h \in Handlers, id \in Ids, from \in Senders, to \in Recipients :
       sendRead(h, id, from, to)
  \/ \E h \in Handlers : sendCreate(h)
  \/ \E h \in Handlers : sendUpdate(h)
  \/ \E h \in Handlers, id \in Ids, message \in Texts : editSentRead(h, id, message)
  \/ \E h \in Handlers : editSentUpdateSender(h)
  \/ \E h \in Handlers : editSentUpdateReceiver(h)
  \/ \E h \in Handlers : crash(h)

\* drafts, and send and editSent calls of two handlers interleaved at their
\* store calls
SpecConcurrent == Init /\ [][NextConcurrent]_vars

\* ---- claims ----

\* the stored document with identifier id, as a set
Doc(id) == readOne(messages, ById(id))

IdsOf(docs) == {d._id : d \in docs}

Returned(op) == last.op = op /\ last.error = None

\* C1: once send(id,S,R) has succeeded on a Draft, the next send(id,S,R) fails
\* with InvalidState (not a draft) and leaves the store as it was, so no further
\* Received record is created.
C1_ResendRejected ==
  [][\A id \in Ids, S \in Users, R \in Users :
       ( /\ Returned("send") /\ last._id = id /\ last.user = S /\ last.to = R
         /\ \A d \in last.returned : ~Has(d, "received")
         /\ send(id, S, R) )
       => (last'.error \in InvalidState /\ messages' = messages)]_vars

\* C2: every stored record is in exactly one of the states Draft, Sent, Received.
C2_ExactlyOneState ==
  \A d \in messages :
    Cardinality({f \in {"draft", "sent", "received"} : Truthy(d, f)}) = 1

\* C3: after a successful deleteSent(S,id), id is in no listSent(S,R) and the
\* Received record that was its mirror is in no listReceived(S,R).
C3_BothHalvesDeleted ==
  Returned("deleteSent") =>
    \A R \in Users :
      /\ last._id \notin IdsOf(readSent(last.user, R))
      /\ last.receiverMessageID \notin IdsOf(readReceived(last.user, R))

\* C4: read(actor,id) on an existing record fails with Forbidden when actor is
\* neither its sender nor its recipient, and returns the record when actor is one
\* of the two.
C4_ReadParticipantsOnly ==
  (last.op = "read" /\ Doc(last._id) # {}) =>
    \A d \in Doc(last._id) :
      IF last.user \in {d.from, d.to}
      THEN last.error = None /\ last.returned = {d}
      ELSE last.error \in Forbidden

\* C5: between operations, every Sent record and the Received record its mirror
\* reference names hold the same text.
C5_MirrorTextEqual ==
  \A d \in messages :
    Truthy(d, "sent") =>
      \A r \in Doc(d.receiverMessageID) : Truthy(r, "received") => r.message = d.message

\* C6: between operations, a Draft has no mirror reference, and the mirror
\* reference of every Sent record names a stored Received record that refers
\* back to it.
C6_MirrorReferencesValid ==
  \A d \in messages :
    /\ Truthy(d, "draft") => ~Has(d, "receiverMessageID")
    /\ Truthy(d, "sent") =>
         /\ Has(d, "receiverMessageID")
         /\ \E r \in messages :
              /\ r._id = d.receiverMessageID
              /\ Truthy(r, "received")
              /\ r.senderMessageID = d._id

\* C7: between operations, the sender-side reference of every Received record
\* names a stored Sent record.
C7_NoOrphanReceived ==
  \A r \in messages :
    Truthy(r, "received") =>
      \E d \in messages : d._id = r.senderMessageID /\ Truthy(d, "sent")

\* C8: after a successful send(id,S,R), listSent(S,R) holds the record id with
\* sent set, and listReceived(S,R) holds a record with another id, received set
\* and the text the original had.
C8_SendVisibleInBothLists ==
  Returned("send") =>
    /\ \E d \in readSent(last.user, last.to) : d._id = last._id /\ d.sent = TRUE
    /\ \E r \in readReceived(last.user, last.to) :
         r._id # last._id /\ r.received = TRUE /\ r.message = last.message

\* a Draft with text "hi" was sent and its mirror is listed as received
C8_Witness ==
  /\ Returned("send")
  /\ last.message = "hi"
  /\ \E d \in readSent(last.user, last.to) : d._id = last._id /\ Has(d, "draft")
  /\ \E r \in readReceived(last.user, last.to) :
       r._id = last.receiverMessageID /\ r.message = "hi"

\* C9: after a successful editSent(id,newText) on a Sent message from S to R, the
\* entry of id in listSent(S,R) and the entry of its mirror in listReceived(S,R)
\* both carry newText.
C9_EditSentVisibleInBothLists ==
  (Returned("editSent") /\ last.message # Undefined) =>
    \A d \in Doc(last._id) :
      /\ d \in readSent(d.from, d.to) /\ d.message = last.message
      /\ \E r \in readReceived(d.from, d.to) :
           r._id = last.receiverMessageID /\ r.message = last.message

\* C10: after draft(S,R,T), listDrafts(S) holds a record with sender S,
\* recipient R, text T and draft set.
C10_DraftListed ==
  last.op = "draft" =>
    \E d \in readDrafts(last.user) :
      /\ d._id = last._id
      /\ d.from = last.user /\ d.to = last.to /\ d.message = last.message
      /\ d.draft = TRUE

\* a draft with empty text was created and is listed
C10_Witness ==
  /\ last.op = "draft"
  /\ last.message = ""
  /\ \E d \in readDrafts(last.user) : d._id = last._id /\ d.message = ""

\* C11: editDraft on a stored record that is not a Draft (a Sent record, or a
\* Received record) fails with InvalidState (not a draft) and leaves every
\* record's text and recipient as they were.
C11_EditDraftRejectedOnNonDraft ==
  [][last'.op = "editDraft" =>
       \A id \in Ids, message \in Texts \cup {Undefined}, to \in Recipients \cup {Undefined} :
         ( /\ \E d \in Doc(id) : Truthy(d, "sent") \/ Truthy(d, "received")
           /\ editDraft(id, message, to) )
         => (last'.error = "NotADraftError" /\ messages' = messages)]_vars

\* C12: send(id,sender,recipient) on a stored record whose sender differs from
\* sender, or whose recipient differs from recipient, fails with Forbidden and
\* leaves the store as it was: no Received record is created and the record is
\* still a Draft. In every state the guard of send answers Forbidden to every
\* mismatched call, and every send step either returns, with the sender and
\* recipient the record had, or throws and changes nothing.
C12_SendForbiddenOnMismatch ==
  /\ [](\A d \in messages, from \in Users, to \in Users :
          (d.from # from \/ d.to # to) => sendError(d._id, from, to) \in Forbidden)
  /\ [][last'.op = "send" =>
          IF last'.error = None
          THEN \A d \in Doc(last'._id) : d.from = last'.user /\ d.to = last'.to
          ELSE messages' = messages /\ nextId' = nextId]_vars

\* a send was refused as Forbidden while a Draft is stored
C12_Witness ==
  /\ last.op = "send"
  /\ last.error = "NotAllowedError"
  /\ \E d \in messages : Truthy(d, "draft") /\ ~Has(d, "sent")
  /\ \A d \in messages : ~Has(d, "received")

\* C13: deleteDraft(actor,id) and deleteSent(actor,id) on a stored record fail
\* with Forbidden whenever actor is not its stored sender, and then remove no
\* record. In every state the guards of both answer Forbidden to every other
\* actor, and every delete step either returns, called by the sender the record
\* had, or throws and changes nothing.
C13_DeleteForbiddenForNonSender ==
  /\ [](\A d \in messages, user \in Users :
          d.from # user =>
            /\ assertUserIsSender(user, d._id) \in Forbidden
            /\ deleteSentError(user, d._id) \in Forbidden)
  /\ [][last'.op \in {"deleteDraft", "deleteSent"} =>
          IF last'.error = None
          THEN \A d \in Doc(last'._id) : d.from = last'.user
          ELSE messages' = messages]_vars

\* a deleteSent by someone else than the sender of a stored Sent record was refused
C13_Witness ==
  /\ last.op = "deleteSent"
  /\ last.error = "UserNotSenderError"
  /\ \E d \in messages : Truthy(d, "sent") /\ Has(d, "receiverMessageID")

\* C14: editDraft, deleteDraft, send, editSent, deleteSent and read fail with
\* NotFound when the id names no stored record.
C14_NotFoundOnMissingId ==
  /\ \A id \in Ids :
       Doc(id) = {} =>
         /\ editDraftError(id) \in NotFound
         /\ editSentError(id) \in NotFound
         /\ \A user \in Users :
              /\ assertUserIsSender(user, id) \in NotFound
              /\ deleteSentError(user, id) \in NotFound
              /\ \A to \in Users : sendError(id, user, to) \in NotFound
  /\ (last.op = "read" /\ Doc(last._id) = {}) => last.error \in NotFound

\* C15: send(id,S,R) on a Received record from S to R fails with InvalidState
\* (not a draft): the guard of send refuses it, and no send step returns for a
\* Received record.
C15_SendRejectedOnReceived ==
  /\ [](\A r \in messages :
          Truthy(r, "received") => sendError(r._id, r.from, r.to) \in InvalidState)
  /\ [][(last'.op = "send" /\ last'.error = None) =>
          \A d \in Doc(last'._id) : ~Truthy(d, "received")]_vars

\* C16: a Received record leaves the store only in a successful deleteSent on
\* its Sent twin.
C16_ReceivedDeletedOnlyByDeleteSent ==
  [][\A r \in messages :
       (Truthy(r, "received") /\ r._id \notin IdsOf(messages')) =>
         /\ last'.op = "deleteSent" /\ last'.error = None
         /\ last'._id = r.senderMessageID]_vars

\* C17: the text of a Received record changes only in a successful editSent on
\* its Sent twin; editDraft and editSent on its own id fail with InvalidState.
C17_ReceivedTextOnlyByEditSent ==
  /\ [](\A r \in messages :
          Truthy(r, "received") =>
            /\ editDraftError(r._id) \in InvalidState
            /\ editSentError(r._id) \in InvalidState)
  /\ [][\A r \in messages, q \in messages' :
          (Truthy(r, "received") /\ q._id = r._id /\ q.message # r.message) =>
            /\ last'.op = "editSent" /\ last'.error = None
            /\ last'._id = r.senderMessageID]_vars

\* C18: the sender and the recipient of a Sent record and of a Received record
\* never change.
C18_PartiesFixedAfterSend ==
  [][\A d \in messages, q \in messages' :
       ((Truthy(d, "sent") \/ Truthy(d, "received")) /\ q._id = d._id) =>
         (q.from = d.from /\ q.to = d.to)]_vars

\* C19: a call that fails has no effect: the stored records and all their fields
\* are the same as before the call.
C19_FailureHasNoEffect ==
  [][last'.error # None => (messages' = messages /\ nextId' = nextId)]_vars

\* deleteSent by the sender of a stored Draft failed on the missing reference
C19_Witness ==
  /\ last.op = "deleteSent"
  /\ last.error = "AssertionError"
  /\ \E d \in messages : Truthy(d, "draft") /\ ~Has(d, "receiverMessageID")

\* C20: a successful editDraft(id,newText?,newRecipient?) sets the text and the
\* recipient that were supplied, keeps an omitted text or recipient and every
\* other field of the record, and modifies no other record.
C20_EditDraftChangesOnlySupplied ==
  [][(last'.op = "editDraft" /\ last'.error = None) =>
       \E d \in messages, q \in messages' :
         /\ d._id = last'._id /\ q._id = last'._id
         /\ q = [d EXCEPT
                   !.message = IF last'.message = Undefined THEN @ ELSE last'.message,
                   !.to = IF last'.to = Undefined THEN @ ELSE last'.to]
         /\ messages' \ {q} = messages \ {d}]_vars

\* a Draft got a new recipient with the text omitted, next to another record
C20_Witness ==
  /\ Returned("editDraft")
  /\ last.message = Undefined /\ last.to = "carol"
  /\ \E d \in messages :
       d._id = last._id /\ d.to = "carol" /\ d.message = "hi" /\ ~Has(d, "sent")
  /\ \E d \in messages : d._id # last._id

\* C26: deleteSent(S,id) called by the stored sender on a record without a
\* mirror reference fails with an error that is neither NotFound nor Forbidden
\* nor InvalidState, and removes no record: the guard answers AssertionError,
\* and every deleteSent step either returns, on a record that had the
\* reference, or throws and changes nothing.
C26_DeleteSentWithoutMirrorFails ==
  /\ [](\A d \in messages :
          ~Has(d, "receiverMessageID") =>
            /\ deleteSentError(d.from, d._id) = "AssertionError"
            /\ deleteSentError(d.from, d._id) \notin NotFound \cup Forbidden \cup InvalidState)
  /\ [][last'.op = "deleteSent" =>
          IF last'.error = None
          THEN \A d \in Doc(last'._id) : Has(d, "receiverMessageID")
          ELSE messages' = messages]_vars

\* deleteSent failed on the missing reference of a Received record: every
\* stored record either has the reference or is a Received record
C26_Witness ==
  /\ last.op = "deleteSent"
  /\ last.error = "AssertionError"
  /\ \E d \in messages : Truthy(d, "received") /\ ~Has(d, "receiverMessageID")
  /\ \A d \in messages : Has(d, "receiverMessageID") \/ Truthy(d, "received")

\* C27: a successful send(id,S,R) keeps the sender's record under id with its
\* sender, recipient and text, adds exactly one record, under a new identifier,
\* and leaves every other record as it was.
C27_SendFrame ==
  [][(last'.op = "send" /\ last'.error = None) =>
       \E d \in messages, q \in messages' :
         /\ d._id = last'._id /\ q._id = last'._id
         /\ q.from = d.from /\ q.to = d.to /\ q.message = d.message
         /\ messages \ {d} \subseteq messages'
         /\ \E r \in messages' :
              /\ r._id \notin IdsOf(messages)
              /\ messages' = (messages \ {d}) \cup {q, r}]_vars

\* a send returned while another Draft of the sender, with a smaller
\* identifier, is in the store
C27_Witness ==
  /\ Returned("send")
  /\ last._id = 2
  /\ \E d \in messages : d._id = 1 /\ Truthy(d, "draft") /\ ~Has(d, "sent")
  /\ \E d \in messages : d._id = 2 /\ Truthy(d, "sent") /\ d.receiverMessageID = 3

\* C28: assertSenderOrReceiver(actor,id) throws Forbidden exactly when actor is
\* neither the stored sender nor the stored recipient of the record, and
\* NotFound when there is no record.
C28_ParticipantGuard ==
  /\ \A d \in messages, user \in Users :
       (assertSenderOrReceiver(user, d._id) \in Forbidden) <=> (user # d.from /\ user # d.to)
  /\ \A d \in messages :
       \A user \in {d.from, d.to} : assertSenderOrReceiver(user, d._id) = None
  /\ \A id \in Ids, user \in Users :
       Doc(id) = {} => assertSenderOrReceiver(user, id) \in NotFound

\* C29: the pairing is one to one: at most one Received record references a
\* given sender-side identifier, and at most one Sent record references a given
\* Received record.
C29_PairingOneToOne ==
  /\ \A id \in Ids :
       Cardinality({r \in messages : Truthy(r, "received") /\ r.senderMessageID = id}) <= 1
  /\ \A r \in messages :
       Truthy(r, "received") =>
         Cardinality({d \in messages : /\ Truthy(d, "sent")
                                       /\ Has(d, "receiverMessageID")
                                       /\ d.receiverMessageID = r._id}) <= 1

\* C30: deleteDraft removes a record only when it is a Draft: no deleteDraft
\* step removes a Sent record or a Received record.
C30_DeleteDraftOnlyDrafts ==
  [][last'.op = "deleteDraft" =>
       \A d \in messages :
         d._id \notin IdsOf(messages') =>
           (Truthy(d, "draft") /\ ~Truthy(d, "sent") /\ ~Truthy(d, "received"))]_vars

C22_DeletedTaskNotListed ==
  [][last'.op = "delete" =>
       \A t \in tasks :
         t._id = last'._id =>
           /\ t \notin getByWorker(t.worker)'
           /\ last'._id \notin IdsOf(getByWorker(t.worker)')
           /\ (getByWorker(t.worker) = {t} => getByWorker(t.worker)' = {})]_vars

\* the only task alice had was deleted while bob still has one
C22_Witness ==
  /\ last.op = "delete" /\ last._id = 1
  /\ nextId > 2
  /\ getByWorker("alice") = {}
  /\ getByWorker("bob") # {}

\* C23: at no point during or after a send, a crash between its two writes
\* included, does the store hold one side of a pair only: every Received record
\* is the mirror that a Sent record with its senderMessageID references, and
\* every Sent record references a Received record that names it.
C23_NeverHalfAPair ==
  /\ \A r \in messages :
       Truthy(r, "received") =>
         \E d \in messages : /\ d._id = r.senderMessageID
                             /\ Truthy(d, "sent")
                             /\ Has(d, "receiverMessageID")
                             /\ d.receiverMessageID = r._id
  /\ \A d \in messages :
       Truthy(d, "sent") =>
         \E r \in messages : /\ Has(d, "receiverMessageID")
                             /\ r._id = d.receiverMessageID
                             /\ Truthy(r, "received")
                             /\ r.senderMessageID = d._id

\* c is a completed send, by the stored sender to the stored recipient, that
\* read its record while it was a Draft not yet sent
SentAsDraft(c) ==
  /\ c.op = "send" /\ c.pc = "done"
  /\ \E d \in c.messageObj :
       /\ Truthy(d, "draft") /\ ~Truthy(d, "sent")
       /\ d.from = c.from /\ d.to = c.to

\* C24: a send that reads a record while it is still a Draft is not refused, and
\* once two send calls on the same id that both read it so have completed there are
\* two Received records for the one sender-side record, of which at most one is
\* named by its receiverMessageID.
C24_ConcurrentSendsBothSucceed ==
  /\ \A d \in messages :
       (Truthy(d, "draft") /\ ~Truthy(d, "sent")) => sendError(d._id, d.from, d.to) = None
  /\ \A a \in calls, b \in calls :
       (a.h # b.h /\ SentAsDraft(a) /\ SentAsDraft(b) /\ a._id = b._id) =>
         LET mirrors == {r \in messages : Truthy(r, "received") /\ r.senderMessageID = a._id}
         IN /\ Cardinality(mirrors) = 2
            /\ IdsOf(mirrors) = {a.receiverMessageID, b.receiverMessageID}
            /\ Cardinality(readMany(messages, ById(a._id))) = 1
            /\ \A d \in Doc(a._id) :
                 Cardinality({r \in mirrors : d.receiverMessageID = r._id}) <= 1

\* both handlers completed a send of the same Draft that each had read unsent
C24_Witness ==
  \E a \in calls, b \in calls :
    /\ a.h # b.h /\ SentAsDraft(a) /\ SentAsDraft(b) /\ a._id = b._id
    /\ a.receiverMessageID # b.receiverMessageID

\* C25: once two editSent calls on the same Sent message with different texts
\* have both completed, the Sent record and the Received record it references
\* hold the same text.
C25_ConcurrentEditsAgree ==
  \A a \in calls, b \in calls :
    (/\ a.h # b.h
     /\ a.op = "editSent" /\ b.op = "editSent"
     /\ a.pc = "done" /\ b.pc = "done"
     /\ a._id = b._id /\ a.message # b.message) =>
      \A d \in Doc(a._id) :
        \A r \in Doc(d.receiverMessageID) : d.message = r.message

\* C31: the lifecycle only moves forward: a Sent record stays Sent while it is
\* stored, a Received record stays Received and never becomes a Draft or a Sent
\* record, and an identifier that left the store never comes back: every
\* identifier that enters the store is the fresh one.
C31_LifecycleForward ==
  [][/\ \A d \in messages, q \in messages' :
          q._id = d._id =>
            /\ Truthy(d, "sent") => Truthy(q, "sent")
            /\ Truthy(d, "received") =>
                 (Truthy(q, "received") /\ ~Truthy(q, "sent") /\ ~Truthy(q, "draft"))
     /\ IdsOf(messages') \ IdsOf(messages) \subseteq {nextId}
     /\ nextId' >= nextId
     /\ \A id \in IdsOf(messages) : id < nextId]_vars

====
